---------------------------- MODULE Spec2Model ----------------------------
(***************************************************************************)
(* A model of canvas-cli: the submit command (src/src/submit.rs), the       *)
(* download command (src/src/download.rs, src/src/lib.rs) and the auth     *)
(* command (src/src/auth.rs).                                              *)
(*                                                                         *)
(* One run of one command is modelled.  The remote service and the user    *)
(* are the environment: every response and every prompt answer is drawn    *)
(* from a small set.  A future is lazy, so a request is on the wire only   *)
(* once the task awaits it; every await is a point where the environment   *)
(* acts.  The tick tasks of the spinners are tasks of their own: each is   *)
(* an action that is enabled until the task is aborted or the process      *)
(* ends.                                                                   *)
(***************************************************************************)
EXTENDS Integers, Sequences, FiniteSets, TLC

VARIABLES
    cmd,            \* which command runs: "submit", "download" or "auth"
    pc,             \* position of the command's task
    outcome,        \* "running", "ok" (Ok(())), "err" (Err returned), "panic"
    files,          \* SubmitCommand.files: files[i] is TRUE iff path i exists
    colors,         \* submit.rs: colors.custom_colors
    favorites,      \* submit.rs: ids of the favorites response
    assignments,    \* submit.rs: the Vec<Assignment>
    courses,        \* submit.rs: the Vec<Course> given to the course selector
    course,         \* submit.rs: the selected course
    assignment,     \* submit.rs: the selected assignment
    up,             \* submit.rs: one upload_file future per file
    done_order,     \* the files in the order their pipelines returned Ok
    params,         \* submit.rs: the query parameters of the finalization call
    sent,           \* requests put on the wire so far, per kind
    last_status,    \* the status line of the response the task read last
    failed,         \* kinds of request that failed: no response, or an unusable one
    next_id,        \* remote service: the id it gives the next file it confirms
    printed,        \* console: success lines and fatal errors so far
    args,           \* DownloadCommand's course flag, url flag, environment, config
    base_url,       \* download.rs: "config" or "url", where the base URL is from
    course_id,      \* download.rs: the resolved course id
    remote_files,   \* download.rs: the Vec<File> of the listing
    queried_assignments,  \* submit.rs: the decoded data of the graphql response
    spinner_task,   \* submit.rs: the tick task of the query spinner
    filter_input,   \* the text typed into the filter of the open selector
    shown,          \* positions of the options the open selector lists
    cfg,            \* auth.rs: the Config that action borrows mutably
    store,          \* auth.rs: the configuration that confy keeps on disk
    credentials,    \* auth.rs: the locals url and access_token
    down            \* download.rs: one per-file download future per selected file

vars == <<cmd, pc, outcome, files, colors, favorites, assignments, courses,
          course, assignment, up, done_order, params, sent, last_status,
          failed, next_id, printed, args, base_url, course_id,
          remote_files, down, queried_assignments, spinner_task,
          filter_input, shown, cfg, store, credentials>>

query_vars == <<queried_assignments, spinner_task>>

filter_vars == <<filter_input, shown>>

auth_vars == <<cfg, store, credentials>>

submit_vars == <<files, colors, favorites, assignments, courses, course,
                 assignment, up, done_order, params, next_id, query_vars>>

download_vars == <<args, base_url, course_id, remote_files, down>>

(***************************************************************************)
(* Bounds.                                                                 *)
(***************************************************************************)
MaxFiles == 2

\* the longest text typed into a filter
MaxQuery == 2

(***************************************************************************)
(* Option<T> and Ordering.                                                 *)
(***************************************************************************)
None == [some |-> FALSE, v |-> 0]

Some(x) == [some |-> TRUE, v |-> x]

Less == 0 - 1

Equal == 0

Greater == 1

\* Ord for integers (timestamps, and names by their rank in string order)
CmpInt(a, b) == IF a < b THEN Less ELSE IF a > b THEN Greater ELSE Equal

\* Ord for bool: false < true
CmpBool(a, b) == CmpInt(IF a THEN 1 ELSE 0, IF b THEN 1 ELSE 0)

\* the derived Ord of Option<T>: None is less than every Some
CmpOption(a, b) ==
    IF a.some /\ b.some THEN CmpInt(a.v, b.v)
    ELSE CmpBool(a.some, b.some)

\* Ordering::then
Then(o1, o2) == IF o1 # Equal THEN o1 ELSE o2

(***************************************************************************)
(* The remote catalog: what the GraphQL query can return.                  *)
(***************************************************************************)
OnlineUpload == "online_upload"

OnlineTextEntry == "online_text_entry"

AsgNode(id, name, due, subs, types) ==
    [id |-> id, name |-> name, due_at |-> due, submissions |-> subs,
     submission_types |-> types]

CourseNode(id, name, asgs) ==
    [id |-> id, name |-> name, asset_string |-> id, assignments |-> asgs]

\* no course at all
CatalogEmpty == << >>

\* one course, two assignments that accept uploads, one of them undated
CatalogOne ==
    << CourseNode(1, 1, << AsgNode(1, 1, Some(1), << >>, {OnlineUpload}),
                           AsgNode(2, 2, None, << >>, {OnlineUpload}) >>) >>

\* two courses; names order them the other way round than ids do
CatalogTwo ==
    << CourseNode(1, 2, << AsgNode(1, 1, Some(2), << "submitted" >>, {OnlineUpload}),
                           AsgNode(2, 2, Some(1), << "", "graded" >>,
                                   {OnlineUpload, OnlineTextEntry}),
                           AsgNode(3, 3, None, << >>, {OnlineTextEntry}) >>),
       CourseNode(2, 1, << AsgNode(4, 1, Some(1), << >>, {OnlineTextEntry}) >>) >>

Catalogs == {CatalogEmpty, CatalogOne, CatalogTwo}

CourseIds == {1, 2}

CssColor == "#008400"

\* the bodies the colors endpoint can return: asset key -> color
ColorMaps == UNION {[S -> {CssColor}] : S \in SUBSET CourseIds}

\* the bodies the favorites endpoint can return
FavoriteSets == SUBSET CourseIds

(***************************************************************************)
(* Responses.  net: the transport delivered a response; success: its       *)
(* status is 2xx; body: its body decodes as the expected type.             *)
(***************************************************************************)
Responses ==
    {[net |-> FALSE, success |-> FALSE, body |-> FALSE]} \cup
    [net : {TRUE}, success : BOOLEAN, body : BOOLEAN]

ReqKinds == {"colors", "favorites", "graphql", "stage1", "stage2", "stage3",
             "finalize", "course", "course_list", "course_colors",
             "file_list", "file_get", "self"}

AggregationKinds == {"colors", "favorites", "graphql"}

UploadKinds == {"stage1", "stage2", "stage3"}

Send(kind) == [sent EXCEPT ![kind] = @ + 1]

\* The client a request of each kind is sent with: the command's `client`, or
\* the client that the free function reqwest::get makes for the one request
\* (download.rs 194: reqwest::get(&file.url)).
ClientOf(kind) == IF kind = "file_get" THEN "reqwest::get" ELSE "client"

\* submit.rs 138-148, download.rs 63-73: `client` is built with the default
\* header AUTHORIZATION: Bearer <token>; a fresh client has no default header
DefaultHeaders(client) == IF client = "client" THEN {"authorization"} ELSE {}

\* no request in either command sets a header of its own
CarriesBearer(kind) == "authorization" \in DefaultHeaders(ClientOf(kind))

NoStatus == [kind |-> "", success |-> TRUE]

\* the status of response r to a request of kind k, as the service gave it
NoteStatus(k, r) ==
    IF r.net THEN [kind |-> k, success |-> r.success] ELSE NoStatus

\* the request of kind k got no response, or one whose body (for stage 2: whose
\* Location header) cannot be used
NoteFailure(k, r) ==
    IF ~r.net \/ ~r.body THEN failed \cup {k} ELSE failed

\* (only the transport error leaves; an undecodable body is taken as it is)
FailedTransportOnly(r) == ~r.net

\* `.await?.json::<T>().await?`: the transport error and the decoding error
\* both leave through `?`

Failed(r) == ~r.net \/ ~r.body

(***************************************************************************)
(* How a run ends.                                                         *)
(***************************************************************************)
\* (an error path that returns Ok(()) instead)
ReturnErrAsOk ==
    /\ outcome' = "ok"
    /\ pc' = "done"
    /\ UNCHANGED printed

\* action returns Err: main prints the error, the process exits non-zero
ReturnErr ==
    /\ outcome' = "err"
    /\ pc' = "done"
    /\ printed' = [printed EXCEPT !.errors = @ + 1]

\* an unwrap() fails: the panic message is printed, the process dies
Panic ==
    /\ outcome' = "panic"
    /\ pc' = "done"
    /\ printed' = [printed EXCEPT !.errors = @ + 1]


(***************************************************************************)
(* The merge of the three query results (submit.rs 182-247).               *)
(***************************************************************************)
\* only the first submission record is looked at
Submitted(subs) == IF Len(subs) > 0 THEN subs[1] # "" ELSE FALSE

\* (the favorite flag set when the favorites list has any entry at all)
MakeCourseAnyFavorite(c, favs, cols) ==
    [name |-> c.name, id |-> c.id, favorite |-> favs # {},
     css_color |-> cols[c.asset_string]]

\* submit.rs 229-242: favorite by favorites.iter().any(|f| f.id == course.id),
\* the color by custom_colors.get(asset_string)

MakeCourse(c, favs, cols) ==
    [name |-> c.name, id |-> c.id, favorite |-> c.id \in favs,
     css_color |-> cols[c.asset_string]]

MakeAssignment(a, c, favs, cols) ==
    [name |-> a.name, id |-> a.id, due_at |-> a.due_at,
     submitted |-> Submitted(a.submissions),
     submission_types |-> a.submission_types,
     course |-> MakeCourse(c, favs, cols)]

RECURSIVE FlatMap(_, _, _)
FlatMap(data, favs, cols) ==
    IF data = << >> THEN << >>
    ELSE LET c == Head(data)
         IN  [i \in 1..Len(c.assignments) |->
                 MakeAssignment(c.assignments[i], c, favs, cols)]
             \o FlatMap(Tail(data), favs, cols)

\* colors.custom_colors.get(asset_string).unwrap() fails for a course whose
\* key is missing; the closure runs once per assignment of the course
MergePanics(data, cols) ==
    \E i \in 1..Len(data) :
        /\ Len(data[i].assignments) > 0
        /\ data[i].asset_string \notin DOMAIN cols

\* (the courses compared by name alone)
CourseCmpByName(a, b) == CmpInt(a.name, b.name)

\* courses.sort_by(favorite descending, then name ascending)

CourseCmp(a, b) == Then(CmpBool(b.favorite, a.favorite), CmpInt(a.name, b.name))

\* The Vec collected from the HashSet comes in any order and the sort is
\* stable: every ordering of the set that the comparator accepts can result.
CourseOrders(S) ==
    {s \in [1..Cardinality(S) -> S] :
        /\ \A i, j \in 1..Cardinality(S) : i # j => s[i] # s[j]
        /\ \A i, j \in 1..Cardinality(S) :
              i < j => CourseCmp(s[i], s[j]) # Greater}

\* assignments.sort_by(submitted, then due_at)
AssignmentCmp(a, b) ==
    Then(CmpBool(a.submitted, b.submitted), CmpOption(a.due_at, b.due_at))

RECURSIVE Insert(_, _)
Insert(x, s) ==
    IF s = << >> THEN << x >>
    ELSE IF AssignmentCmp(Head(s), x) = Greater THEN << x >> \o s
    ELSE << Head(s) >> \o Insert(x, Tail(s))

\* slice::sort_by is a stable sort
RECURSIVE SortAssignments(_)
SortAssignments(s) ==
    IF s = << >> THEN << >>
    ELSE Insert(s[Len(s)], SortAssignments(SubSeq(s, 1, Len(s) - 1)))

\* (the first retain left out: every submission type passes)
AcceptsAnyType(a) == TRUE

\* submit.rs 261-268: some submission type of the assignment is online_upload

AcceptsUpload(a) == OnlineUpload \in a.submission_types

\* the two retain calls and the sort that follow the course prompt
Candidates(asgs, c) ==
    SortAssignments(
        SelectSeq(SelectSeq(asgs, AcceptsUpload), LAMBDA a : a.course = c))

(***************************************************************************)
(* The filter of the assignment selector and of the file selector:         *)
(* with_filter(|input, _, string_value, _|                                 *)
(*     matcher.fuzzy_match(string_value, input).is_some())                 *)
(* with SkimMatcherV2::default().  Texts are sequences of characters.      *)
(***************************************************************************)
\* the keys the user types into a filter
Alphabet == {"a", "b", "B"}

\* the text of a name, by its rank in string order (upper case sorts first)
NameText(n) ==
    CASE n = 1 -> << "A", "b" >>
      [] n = 2 -> << "a", "B" >>
      [] OTHER -> << "b", "a" >>

\* submit.rs 68-72, Display for Assignment: the name, then the mark of a
\* submitted assignment
Label(a) ==
    NameText(a.name) \o (IF a.submitted THEN << " ", "check mark" >> ELSE << >>)

\* download.rs 21-25, Display for File: the file name (files are named by
\* their id), then the size in brackets as human_bytes writes it (its digits
\* are left out)
FileLabel(file) == NameText(file.id) \o << " ", "(", "B", ")" >>

IsUpper(ch) == ch \in {"A", "B"}

Lower(ch) == IF ch = "A" THEN "a" ELSE IF ch = "B" THEN "b" ELSE ch

\* the matcher's comparison of one character of the choice with one of the
\* pattern
CharEqual(c, p, case_sensitive) ==
    IF case_sensitive THEN c = p ELSE Lower(c) = Lower(p)

\* the pattern is a subsequence of the choice
RECURSIVE CheapMatches(_, _, _)
CheapMatches(choice, pattern, case_sensitive) ==
    IF pattern = << >> THEN TRUE
    ELSE IF choice = << >> THEN FALSE
    ELSE IF CharEqual(Head(choice), Head(pattern), case_sensitive)
    THEN CheapMatches(Tail(choice), Tail(pattern), case_sensitive)
    ELSE CheapMatches(Tail(choice), pattern, case_sensitive)

\* (a matcher that looks for the last key typed only)
MatchLastKey(choice, pattern) ==
    \/ pattern = << >>
    \/ \E i \in 1..Len(choice) :
          choice[i] = pattern[Len(pattern)]

\* submit.rs 273-275, download.rs 140-142: fuzzy_match(..).is_some().  The
\* default matcher has smart case: a pattern with an upper-case character is
\* matched with case, any other without.

FuzzyMatch(choice, pattern) ==
    \/ pattern = << >>
    \/ CheapMatches(choice, pattern,
                    \E i \in 1..Len(pattern) : IsUpper(pattern[i]))

\* the options that the selector lists for the input: the filter is applied
\* to every option's label
Filtered(labels, input) ==
    {i \in 1..Len(labels) : FuzzyMatch(labels[i], input)}

NoCourse == [name |-> 0, id |-> 0, favorite |-> FALSE, css_color |-> ""]

NoAssignment ==
    [name |-> 0, id |-> 0, due_at |-> None, submitted |-> FALSE,
     submission_types |-> {}, course |-> NoCourse]

NoParams == [file_ids |-> << >>, submission_type |-> ""]

(***************************************************************************)
(* The initial state: the command line is parsed, action is about to run.  *)
(***************************************************************************)
FileLists == UNION {[1..n -> BOOLEAN] : n \in 0..MaxFiles}

\* a --url value or a CANVAS_URL value: whether the pattern
\* (https://.+)/courses/(\d+) matches it, and the course id it then captures
Url(matches, id) == [matches |-> matches, course |-> id]

\* Each source of a course id names another course, so that the id in use
\* tells where it came from.
ArgSets ==
    [course : {None, Some(1)},
     env_course : {None, Some(2)},
     env_url : {None, Some(Url(TRUE, 3))},
     url : {None, Some(Url(TRUE, 4)), Some(Url(FALSE, 0))},
     cfg_empty : BOOLEAN]

\* auth.rs 27-34: the flags of AuthCommand
AuthArgSets ==
    [url : {None, Some("flag url")},
     access_token : {None, Some("flag token")}]

\* the configuration loaded before the command runs, and no credentials
OldConfig == [url |-> "old url", access_token |-> "old token"]

NoCredentials == [url |-> "", access_token |-> ""]

NoArgs == [course |-> None, env_course |-> None, env_url |-> None,
           url |-> None, cfg_empty |-> FALSE]

Init ==
    /\ cmd \in {"submit", "download", "auth"}
    /\ pc = "start"
    /\ outcome = "running"
    /\ files \in IF cmd = "submit" THEN FileLists ELSE {<< >>}
    /\ args \in IF cmd = "download" THEN ArgSets
                 ELSE IF cmd = "auth" THEN AuthArgSets ELSE {NoArgs}
    /\ cfg = OldConfig
    /\ store = OldConfig
    /\ credentials = NoCredentials
    /\ base_url = "config"
    /\ colors = << >>
    /\ favorites = {}
    /\ assignments = << >>
    /\ courses = << >>
    /\ course = NoCourse
    /\ assignment = NoAssignment
    /\ up = << >>
    /\ done_order = << >>
    /\ params = NoParams
    /\ sent = [k \in ReqKinds |-> 0]
    /\ last_status = NoStatus
    /\ failed = {}
    /\ next_id = 1
    /\ printed = [success |-> 0, errors |-> 0, prompts |-> {}]
    /\ course_id = None
    /\ remote_files = << >>
    /\ down = << >>
    /\ queried_assignments = << >>
    /\ spinner_task = "none"
    /\ filter_input = << >>
    /\ shown = {}

(***************************************************************************)
(* SubmitCommand::action, up to the upload fan-out.                        *)
(***************************************************************************)
\* (the check without the loop over the files)
FilesVerifiedNonEmptyOnly(fs) == Len(fs) > 0

\* submit.rs 108-119: at least one file, and every file has metadata

FilesVerified(fs) == Len(fs) > 0 /\ \A i \in 1..Len(fs) : fs[i]

\* submit.rs 106-164: the precondition checks, then the colors request is awaited
SubmitStart ==
    /\ cmd = "submit" /\ pc = "start"
    /\ IF ~FilesVerified(files)
       THEN /\ ReturnErr
            /\ UNCHANGED <<sent, spinner_task>>
       ELSE /\ pc' = "colors"
            /\ spinner_task' = "ticking"    \* tokio::spawn of the tick loop
            /\ sent' = Send("colors")
            /\ UNCHANGED <<outcome, printed>>
    /\ UNCHANGED <<auth_vars, filter_vars, cmd, files, colors, favorites, assignments, courses, course,
                   assignment, up, done_order, params, next_id,
                   queried_assignments, last_status, failed, download_vars>>

\* submit.rs 164-167: colors_request.await?.json().await?, then favorites is awaited
ColorsResponse(r, body) ==
    /\ cmd = "submit" /\ pc = "colors"
    /\ last_status' = NoteStatus("colors", r)
    /\ failed' = NoteFailure("colors", r)
    /\ IF Failed(r)
       THEN /\ ReturnErr
            /\ UNCHANGED <<colors, sent>>
       ELSE /\ colors' = body
            /\ pc' = "favorites"
            /\ sent' = Send("favorites")
            /\ UNCHANGED <<outcome, printed>>
    /\ UNCHANGED <<auth_vars, filter_vars, cmd, query_vars, files, favorites, assignments, courses,
                   course, assignment, up, done_order, params, next_id,
                   download_vars>>

\* submit.rs 167-173: favorites_request.await?.json().await?, then graphql is awaited
FavoritesResponse(r, body) ==
    /\ cmd = "submit" /\ pc = "favorites"
    /\ last_status' = NoteStatus("favorites", r)
    /\ failed' = NoteFailure("favorites", r)
    /\ IF Failed(r)
       THEN /\ ReturnErr
            /\ UNCHANGED <<favorites, sent>>
       ELSE /\ favorites' = body
            /\ pc' = "graphql"
            /\ sent' = Send("graphql")
            /\ UNCHANGED <<outcome, printed>>
    /\ UNCHANGED <<auth_vars, filter_vars, cmd, query_vars, files, colors, assignments, courses,
                   course, assignment, up, done_order, params, next_id,
                   download_vars>>

\* submit.rs 173-258: graphql_assignment_request.await?.data.unwrap(), the merge,
\* the course list, and the course prompt is shown.  has_data: the decoded
\* response carries a data member.
GraphqlResponse(r, has_data, data) ==
    /\ cmd = "submit" /\ pc = "graphql"
    /\ last_status' = NoteStatus("graphql", r)
    /\ failed' = IF ~r.net \/ ~r.body \/ ~has_data
                  THEN failed \cup {"graphql"} ELSE failed
    /\ IF Failed(r)
       THEN /\ ReturnErr
            /\ UNCHANGED <<colors, favorites, assignments, courses, query_vars>>
       ELSE IF ~has_data
       THEN /\ Panic                        \* .data.unwrap()
            /\ UNCHANGED <<colors, favorites, assignments, courses, query_vars>>
       ELSE IF MergePanics(data, colors)
       THEN /\ queried_assignments' = data
            /\ spinner_task' = "aborted"    \* spinner_task.abort()
            /\ Panic                        \* .get(&asset_string).unwrap()
            /\ UNCHANGED <<colors, favorites, assignments, courses>>
       ELSE LET merged == FlatMap(data, favorites, colors)
                offered == {merged[i].course : i \in 1..Len(merged)}
            IN  /\ queried_assignments' = data
                /\ spinner_task' = "aborted"
                /\ assignments' = merged
                /\ colors' = << >>          \* last read by the merge
                /\ favorites' = {}
                /\ \E order \in CourseOrders(offered) :
                      /\ courses' = order
                      /\ IF Len(order) = 0
                         THEN ReturnErr     \* Select refuses an empty list
                         ELSE /\ pc' = "course_prompt"
                              /\ printed' = [printed EXCEPT
                                                 !.prompts = @ \cup {"course"}]
                              /\ UNCHANGED outcome
    /\ UNCHANGED <<auth_vars, filter_vars, cmd, files, course, assignment, up, done_order, params,
                   sent, next_id, download_vars>>


\* submit.rs 258-276: the answer to the course prompt (0: the user cancels),
\* the filters and the sort, and the assignment prompt is shown
CoursePrompt(choice) ==
    /\ cmd = "submit" /\ pc = "course_prompt"
    /\ courses' = << >>
    /\ IF choice = 0
       THEN /\ ReturnErr
            /\ UNCHANGED <<course, assignments>>
       ELSE /\ course' = courses[choice]
            /\ assignments' = Candidates(assignments, courses[choice])
            /\ IF Len(assignments') = 0
               THEN ReturnErr               \* Select refuses an empty list
               ELSE /\ pc' = "assignment_prompt"
                    /\ printed' = [printed EXCEPT
                                       !.prompts = @ \cup {"assignment"}]
                    /\ UNCHANGED outcome
    /\ shown' = IF pc' = "assignment_prompt"
                 THEN 1..Len(assignments') ELSE {}
    /\ UNCHANGED <<auth_vars, cmd, filter_input, query_vars, files, colors, favorites,
                   assignment, up, done_order, params, sent, last_status,
                   failed, next_id, download_vars>>

\* one upload_file future, not yet past its first await (File::open)
\* spinner: the future's tick task ("none" before it is spawned); late_tick:
\* the task has ticked after the future returned
NewUpload == [pc |-> "open", stages |-> {}, upload_bucket |-> 0,
              posted_to |-> 0, posted_form |-> 0, location |-> 0, id |-> 0,
              spinner |-> "none", late_tick |-> FALSE]

\* submit.rs 276-291 and 333-335: the answer to the assignment prompt, and
\* join_all polls every upload_file future up to its first await
AssignmentPrompt(choice) ==
    /\ cmd = "submit" /\ pc = "assignment_prompt"
    /\ choice = 0 \/ choice \in shown
    /\ assignments' = << >>
    /\ filter_input' = << >>
    /\ shown' = {}
    /\ IF choice = 0
       THEN /\ ReturnErr
            /\ UNCHANGED <<assignment, up>>
       ELSE /\ assignment' = assignments[choice]
            /\ up' = [f \in 1..Len(files) |-> NewUpload]
            /\ pc' = "uploading"
            /\ UNCHANGED <<outcome, printed>>
    /\ UNCHANGED <<auth_vars, cmd, query_vars, files, colors, favorites, courses, course,
                   done_order, params, sent, last_status, failed, next_id,
                   download_vars>>


(***************************************************************************)
(* upload_file (submit.rs 325-414): one future per file, polled by         *)
(* join_all inside the command's own task.                                 *)
(***************************************************************************)
Terminal(p) == p.pc \in {"ok", "err"}

\* (the payload posted together with the intent request, not after its answer)
StartUploadEager(p) ==
    [p EXCEPT !.pc = "stage1", !.stages = {1, 2}, !.spinner = "ticking"]

\* submit.rs 338-359: the tick task is spawned and the stage-1 request goes out

StartUpload(p) ==
    [p EXCEPT !.pc = "stage1", !.stages = {1}, !.spinner = "ticking"]

\* (the payload of every file posted to the bucket of the first file)
GotBucketOfFirst(p, b) ==
    [p EXCEPT !.pc = "stage2", !.upload_bucket = b, !.posted_to = 1,
              !.posted_form = 1, !.stages = @ \cup {2}]

\* submit.rs 360-382: the bucket b is decoded into the local upload_bucket; its
\* upload_url and its upload_params are moved into the one stage-2 request

GotBucket(p, b) ==
    [p EXCEPT !.pc = "stage2", !.upload_bucket = b, !.posted_to = b,
              !.posted_form = b, !.stages = @ \cup {2}]

\* submit.rs 383-399: the Location header is read and the confirmation is posted
GotLocation(p, loc) ==
    [p EXCEPT !.pc = "stage3", !.location = loc, !.stages = @ \cup {3}]

\* submit.rs 400-413: the UploadResponse is decoded, spinner_task.abort(),
\* Ok(upload_response)
GotUploadResponse(p, id) ==
    [p EXCEPT !.pc = "ok", !.id = id, !.spinner = "aborted"]

\* `.await?` on a transport error: the future returns Err; nothing on this
\* path aborts the tick task, and dropping its JoinHandle detaches it
UploadErr(p) == [p EXCEPT !.pc = "err"]

\* an unwrap() inside the future panics
UploadPanic(p) == [p EXCEPT !.pc = "panicked"]

\* (a future that the unwinding leaves as it is)
LeftRunning(p) == p

\* a future that is dropped before it is complete: its pending request is
\* cancelled with it

Dropped(p) == [p EXCEPT !.pc = "dropped"]

\* the futures after the panic of future f: the panic unwinds through
\* join_all and the command's task, and join_all drops every future it
\* holds; those not yet complete stop where they stand
PanicIn(u, f) ==
    [g \in 1..Len(u) |->
        IF g = f THEN UploadPanic(u[g])
        ELSE IF Terminal(u[g]) THEN u[g] ELSE Dropped(u[g])]

\* (the ids collected as the uploads complete, as an unordered join gives them)
FileIdsByCompletion(u, order) == [i \in 1..Len(order) |-> u[order[i]].id]

\* submit.rs 292-300: uploaded_files.into_iter().map(|f| f.unwrap().id) keeps
\* the order of the futures, which is the order of self.files

FileIds(u, order) == [i \in 1..Len(u) |-> u[i].id]

\* (the failed results skipped instead of unwrapped)
JoinPanicsNever(u) == FALSE

\* submit.rs 297: f.unwrap() panics on the first Err among the results

JoinPanics(u) == \E f \in 1..Len(u) : u[f].pc = "err"

\* (the fan-in taken as soon as one future is complete)
AnyComplete(u) == \E f \in 1..Len(u) : Terminal(u[f])

\* submit.rs 291: join_all(..).await returns once every future is complete

AllComplete(u) == \A f \in 1..Len(u) : Terminal(u[f])

\* submit.rs 291-312: what the task does in the poll in which `u`, the futures
\* after this poll, are all complete: the parameters are built and the
\* finalization request is awaited.  Before that the task stays in join_all.
\* `out` is the request the pipeline itself sent in this poll, if any.
Join(u, order, out) ==
    IF ~AllComplete(u)
    THEN /\ sent' = IF out = "" THEN sent ELSE Send(out)
         /\ UNCHANGED <<pc, outcome, printed, params>>
    ELSE IF JoinPanics(u)
    THEN /\ Panic
         /\ UNCHANGED <<sent, params>>
    ELSE /\ params' = [file_ids |-> FileIds(u, order),
                       submission_type |-> OnlineUpload]
         /\ sent' = Send("finalize")
         /\ pc' = "finalize"
         /\ UNCHANGED <<outcome, printed>>

\* submit.rs 335-359: File::open completes, the spinner starts, stage 1 is sent
FileOpened(f) ==
    /\ cmd = "submit" /\ pc = "uploading"
    /\ up[f].pc = "open"
    /\ up' = [up EXCEPT ![f] = StartUpload(@)]
    /\ sent' = Send("stage1")
    /\ UNCHANGED <<auth_vars, filter_vars, cmd, query_vars, pc, outcome, files, colors, favorites,
                   assignments, courses, course, assignment, done_order,
                   params, last_status, failed, next_id, printed,
                   download_vars>>

\* submit.rs 359-382: the answer to stage 1; the bucket the service issues for
\* the file named in the request is identified by that file
Stage1Response(f, r) ==
    /\ cmd = "submit" /\ pc = "uploading"
    /\ up[f].pc = "stage1"
    /\ last_status' = NoteStatus("stage1", r)
    /\ failed' = NoteFailure("stage1", r)
    /\ IF ~r.net
       THEN /\ up' = [up EXCEPT ![f] = UploadErr(@)]
            /\ Join(up', done_order, "")
            /\ UNCHANGED next_id
       ELSE IF ~r.body
       THEN /\ up' = PanicIn(up, f)
            /\ Panic                        \* .json().await.unwrap()
            /\ UNCHANGED <<sent, params, next_id>>
       ELSE /\ up' = [up EXCEPT ![f] = GotBucket(@, f)]
            /\ Join(up', done_order, "stage2")
            /\ UNCHANGED next_id
    /\ UNCHANGED <<auth_vars, filter_vars, cmd, query_vars, files, colors, favorites, assignments,
                   courses, course, assignment, done_order, download_vars>>

\* submit.rs 382-399: the answer to stage 2; r.body: it has a Location header
Stage2Response(f, r) ==
    /\ cmd = "submit" /\ pc = "uploading"
    /\ up[f].pc = "stage2"
    /\ last_status' = NoteStatus("stage2", r)
    /\ failed' = NoteFailure("stage2", r)
    /\ IF ~r.net
       THEN /\ up' = [up EXCEPT ![f] = UploadErr(@)]
            /\ Join(up', done_order, "")
       ELSE IF ~r.body
       THEN /\ up' = PanicIn(up, f)
            /\ Panic                        \* .get("Location").unwrap()
            /\ UNCHANGED <<sent, params>>
       ELSE /\ up' = [up EXCEPT ![f] = GotLocation(@, up[f].posted_to)]
            /\ Join(up', done_order, "stage3")
    /\ UNCHANGED <<auth_vars, filter_vars, cmd, query_vars, files, colors, favorites, assignments,
                   courses, course, assignment, done_order, next_id,
                   download_vars>>

\* submit.rs 399-413: the answer to stage 3; the service numbers the files it
\* confirms in the order it confirms them
Stage3Response(f, r) ==
    /\ cmd = "submit" /\ pc = "uploading"
    /\ up[f].pc = "stage3"
    /\ last_status' = NoteStatus("stage3", r)
    /\ failed' = NoteFailure("stage3", r)
    /\ IF ~r.net
       THEN /\ up' = [up EXCEPT ![f] = UploadErr(@)]
            /\ Join(up', done_order, "")
            /\ UNCHANGED <<next_id, done_order>>
       ELSE IF ~r.body
       THEN /\ up' = PanicIn(up, f)
            /\ Panic                        \* .json().await.unwrap()
            /\ UNCHANGED <<sent, params, next_id, done_order>>
       ELSE /\ up' = [up EXCEPT ![f] = GotUploadResponse(@, next_id)]
            /\ next_id' = next_id + 1
            /\ done_order' = Append(done_order, f)
            /\ Join(up', done_order', "")
    /\ UNCHANGED <<auth_vars, filter_vars, cmd, query_vars, files, colors, favorites, assignments,
                   courses, course, assignment, download_vars>>

\* submit.rs 128-133: one turn of the query spinner's loop, sleep then inc(1).
\* The task lives until it is aborted or the process ends; the position of
\* the bar is not part of the state.
SpinnerTick ==
    /\ cmd = "submit" /\ pc # "done"
    /\ spinner_task = "ticking"
    /\ UNCHANGED vars

\* submit.rs 342-347: one turn of the loop of file f's tick task
UploadSpinnerTick(f) ==
    /\ cmd = "submit" /\ pc = "uploading"
    /\ up[f].spinner = "ticking"
    /\ up' = [up EXCEPT ![f].late_tick = @ \/ Terminal(up[f])]
    /\ UNCHANGED <<auth_vars, filter_vars, cmd, pc, outcome, files, colors, favorites, assignments,
                   courses, course, assignment, done_order, params, sent,
                   last_status, failed, next_id, printed, query_vars,
                   download_vars>>

\* (the answer taken without error_for_status)
FinalizeOkAnyStatus(r) == r.net

\* submit.rs 314: error_for_status

FinalizeOk(r) == r.net /\ r.success

\* submit.rs 312-321: the answer to the finalization request
FinalizeResponse(r) ==
    /\ cmd = "submit" /\ pc = "finalize"
    /\ last_status' = NoteStatus("finalize", r)
    /\ failed' = IF ~r.net THEN failed \cup {"finalize"} ELSE failed
    /\ IF FinalizeOk(r)
       THEN /\ printed' = [printed EXCEPT !.success = @ + 1]
            /\ outcome' = "ok"
            /\ pc' = "done"
       ELSE ReturnErr
    /\ UNCHANGED <<auth_vars, filter_vars, cmd, submit_vars, sent, download_vars>>


(***************************************************************************)
(* DownloadCommand::action (download.rs) and Course::fetch (lib.rs).       *)
(***************************************************************************)
\* cfg.ensure_non_empty(): an empty url or access token is an error
EnsureNonEmpty(a) == ~a.cfg_empty

\* download.rs 76-80: CANVAS_URL if it is set, else --url
CanvasFileUrl(a) == IF a.env_url.some THEN a.env_url ELSE a.url

\* download.rs 85: regex.captures(..).unwrap()
UrlPanics(a) == CanvasFileUrl(a).some /\ ~CanvasFileUrl(a).v.matches

\* download.rs 75-95: --course, overwritten by the id in the URL, overwritten
\* by CANVAS_COURSE_ID
ResolveCourseId(a) ==
    IF a.env_course.some THEN a.env_course
    ELSE IF CanvasFileUrl(a).some THEN Some(CanvasFileUrl(a).v.course)
    ELSE a.course

\* download.rs 86
ResolveBaseUrl(a) == IF CanvasFileUrl(a).some THEN "url" ELSE "config"

\* (the branch of the lookup by id never taken)
LookupNever(cid) == FALSE

\* lib.rs 54: if let Some(course_id) = course_id

LookupById(cid) == cid.some

\* download.rs 57-97 and lib.rs 54-61, 90-96: the configuration check, the
\* resolution of the course id, and the first request of Course::fetch
DownloadStart ==
    /\ cmd = "download" /\ pc = "start"
    /\ IF ~EnsureNonEmpty(args)
       THEN /\ ReturnErr
            /\ UNCHANGED <<base_url, course_id, sent>>
       ELSE IF UrlPanics(args)
       THEN /\ Panic
            /\ UNCHANGED <<base_url, course_id, sent>>
       ELSE /\ base_url' = ResolveBaseUrl(args)
            /\ course_id' = ResolveCourseId(args)
            /\ IF LookupById(course_id')
               THEN /\ pc' = "course"
                    /\ sent' = Send("course")
               ELSE /\ pc' = "course_list"
                    /\ sent' = Send("course_list")
            /\ UNCHANGED <<outcome, printed>>
    /\ UNCHANGED <<auth_vars, filter_vars, cmd, submit_vars, last_status, failed, args, remote_files,
                   down>>

\* lib.rs 18-25: a CourseResponse
CourseResponseOf(id, name, fav, created, concluded) ==
    [id |-> id, name |-> name, is_favorite |-> fav, created_at |-> created,
     concluded |-> concluded]

\* what the course list endpoint can return (the elements that deserialize)
CourseLists ==
    { << >>,
      << CourseResponseOf(1, 1, FALSE, 1, TRUE) >> }
    \cup { << CourseResponseOf(1, 2, 1 \in F, 2, FALSE),
              CourseResponseOf(2, 1, 2 \in F, 1, FALSE),
              CourseResponseOf(3, 3, 3 \in F, 3, FALSE) >> :
            F \in SUBSET {1, 2, 3} }

\* lib.rs 61-69: the answer to the lookup by id, then the colors request
CourseResponse(r, body) ==
    /\ cmd = "download" /\ pc = "course"
    /\ last_status' = NoteStatus("course", r)
    /\ failed' = NoteFailure("course", r)
    /\ IF Failed(r)
       THEN /\ ReturnErr
            /\ UNCHANGED <<courses, sent>>
       ELSE /\ courses' = << body >>
            /\ pc' = "course_colors"
            /\ sent' = Send("course_colors")
            /\ UNCHANGED <<outcome, printed>>
    /\ UNCHANGED <<auth_vars, filter_vars, cmd, query_vars, files, colors, favorites, assignments,
                   course, assignment, up, done_order, params, next_id,
                   download_vars>>

\* lib.rs 96-108: the answer to the course list, then the colors request
CourseListResponse(r, body) ==
    /\ cmd = "download" /\ pc = "course_list"
    /\ last_status' = NoteStatus("course_list", r)
    /\ failed' = NoteFailure("course_list", r)
    /\ IF Failed(r)
       THEN /\ ReturnErr
            /\ UNCHANGED <<courses, sent>>
       ELSE /\ courses' = body
            /\ pc' = "course_colors"
            /\ sent' = Send("course_colors")
            /\ UNCHANGED <<outcome, printed>>
    /\ UNCHANGED <<auth_vars, filter_vars, cmd, query_vars, files, colors, favorites, assignments,
                   course, assignment, up, done_order, params, next_id,
                   download_vars>>

\* lib.rs 79-85 and 123-129: css_color is course_colors.get(&id).cloned()
FetchedCourse(c, cols) ==
    [name |-> c.name, id |-> c.id, is_favorite |-> c.is_favorite,
     css_color |-> IF c.id \in DOMAIN cols THEN Some(cols[c.id]) ELSE None,
     created_at |-> c.created_at]

\* lib.rs 132-136: favorites first, then by creation time
FetchCmp(a, b) ==
    Then(CmpBool(b.is_favorite, a.is_favorite), CmpInt(a.created_at, b.created_at))

RECURSIVE InsertCourse(_, _)
InsertCourse(x, s) ==
    IF s = << >> THEN << x >>
    ELSE IF FetchCmp(Head(s), x) = Greater THEN << x >> \o s
    ELSE << Head(s) >> \o InsertCourse(x, Tail(s))

RECURSIVE SortCourses(_)
SortCourses(s) ==
    IF s = << >> THEN << >>
    ELSE InsertCourse(s[Len(s)], SortCourses(SubSeq(s, 1, Len(s) - 1)))

\* lib.rs 120-136
FetchList(list, cols) ==
    LET open == SelectSeq(list, LAMBDA c : ~c.concluded)
    IN  SortCourses([i \in 1..Len(open) |-> FetchedCourse(open[i], cols)])

\* lib.rs 69-88 and 108-137, download.rs 97-107: the answer to the colors
\* request; with an id the course is built and the file listing is requested,
\* without one the course prompt is shown
CourseColorsResponse(r, body) ==
    /\ cmd = "download" /\ pc = "course_colors"
    /\ last_status' = NoteStatus("course_colors", r)
    /\ failed' = NoteFailure("course_colors", r)
    /\ IF Failed(r)
       THEN /\ ReturnErr
            /\ UNCHANGED <<courses, course, sent>>
       ELSE IF LookupById(course_id)
       THEN /\ course' = FetchedCourse(courses[1], body)
            /\ courses' = << >>
            /\ pc' = "file_list"
            /\ sent' = Send("file_list")
            /\ UNCHANGED <<outcome, printed>>
       ELSE /\ courses' = FetchList(courses, body)
            /\ IF Len(courses') = 0
               THEN ReturnErr               \* Select refuses an empty list
               ELSE /\ pc' = "course_prompt"
                    /\ printed' = [printed EXCEPT !.prompts = @ \cup {"course"}]
                    /\ UNCHANGED outcome
            /\ UNCHANGED <<course, sent>>
    /\ UNCHANGED <<auth_vars, filter_vars, cmd, query_vars, files, colors, favorites, assignments,
                   assignment, up, done_order, params, next_id,
                   download_vars>>

\* lib.rs 137, download.rs 97-107: the answer to the course prompt (0: the user
\* cancels), then the file listing is requested
FetchPrompt(choice) ==
    /\ cmd = "download" /\ pc = "course_prompt"
    /\ courses' = << >>
    /\ IF choice = 0
       THEN /\ ReturnErr
            /\ UNCHANGED <<course, sent>>
       ELSE /\ course' = courses[choice]
            /\ pc' = "file_list"
            /\ sent' = Send("file_list")
            /\ UNCHANGED <<outcome, printed>>
    /\ UNCHANGED <<auth_vars, filter_vars, cmd, query_vars, files, colors, favorites, assignments,
                   assignment, up, done_order, params, last_status, failed,
                   next_id, download_vars>>

\* download.rs 12-19: the listing's files; the service lists the newest first
FileOf(id, updated) == [id |-> id, updated_at |-> updated]

Listing(n) == [i \in 1..n |-> FileOf(i, n + 1 - i)]

\* download.rs 137: files.sort_by(updated_at)
RECURSIVE InsertFile(_, _)
InsertFile(x, s) ==
    IF s = << >> THEN << x >>
    ELSE IF CmpInt(Head(s).updated_at, x.updated_at) = Greater THEN << x >> \o s
    ELSE << Head(s) >> \o InsertFile(x, Tail(s))

RECURSIVE SortFiles(_)
SortFiles(s) ==
    IF s = << >> THEN << >>
    ELSE InsertFile(s[Len(s)], SortFiles(SubSeq(s, 1, Len(s) - 1)))

\* one per-file future of download.rs, awaiting reqwest::get
\* (download.rs 181-194: its tick task is spawned before the request)
NewDownload(file) ==
    [pc |-> "get", id |-> file.id, spinner |-> "ticking", late_tick |-> FALSE]

DownloadTerminal(d) == d.pc \in {"ok", "err"}

\* download.rs 164-168: the results of join_all are dropped, the success line
\* is printed and Ok(()) returned once every future is complete
DownloadJoin(d) ==
    IF \E i \in 1..Len(d) : ~DownloadTerminal(d[i])
    THEN UNCHANGED <<pc, outcome, printed>>
    ELSE /\ printed' = [printed EXCEPT !.success = @ + 1]
         /\ outcome' = "ok"
         /\ pc' = "done"

\* download.rs 147-164 and 177-194: nothing selected ends the run with Ok; else
\* the directory is created (dir_ok: create_dir_all and canonicalize succeed)
\* and join_all polls every future up to its request
StartDownloads(selected, dir_ok) ==
    IF Len(selected) = 0
    THEN /\ outcome' = "ok"
         /\ pc' = "done"
         /\ UNCHANGED <<printed, down, sent>>
    ELSE IF ~dir_ok
    THEN /\ ReturnErr
         /\ UNCHANGED <<down, sent>>
    ELSE /\ down' = [i \in 1..Len(selected) |-> NewDownload(selected[i])]
         /\ sent' = [sent EXCEPT !["file_get"] = @ + Len(selected)]
         /\ pc' = "downloading"
         /\ UNCHANGED <<outcome, printed>>

\* download.rs 107-145: the answer to the file listing.  n: how many files the
\* body lists; ids: the file ids on the command line, if any.
FileListResponse(r, n, ids, dir_ok) ==
    /\ cmd = "download" /\ pc = "file_list"
    /\ last_status' = NoteStatus("file_list", r)
    /\ failed' = IF ~r.net \/ (r.success /\ ~r.body)
                  THEN failed \cup {"file_list"} ELSE failed
    /\ IF ~r.net
       THEN /\ ReturnErr
            /\ UNCHANGED <<remote_files, down, sent>>
       ELSE IF ~r.success
       THEN /\ outcome' = "ok"              \* "No files available", Ok(())
            /\ pc' = "done"
            /\ UNCHANGED <<printed, remote_files, down, sent>>
       ELSE IF ~r.body
       THEN /\ ReturnErr
            /\ UNCHANGED <<remote_files, down, sent>>
       ELSE IF n = 0
       THEN /\ outcome' = "ok"              \* "No files available", Ok(())
            /\ pc' = "done"
            /\ UNCHANGED <<printed, remote_files, down, sent>>
       ELSE IF ids.some
       THEN /\ remote_files' = SelectSeq(Listing(n), LAMBDA file : file.id \in ids.v)
            /\ StartDownloads(remote_files', dir_ok)
       ELSE /\ remote_files' = SortFiles(Listing(n))
            /\ pc' = "files_prompt"
            /\ printed' = [printed EXCEPT !.prompts = @ \cup {"files"}]
            /\ UNCHANGED <<outcome, down, sent>>
    /\ shown' = IF pc' = "files_prompt" THEN 1..Len(remote_files') ELSE {}
    /\ UNCHANGED <<auth_vars, cmd, filter_input, submit_vars, args, base_url, course_id>>

\* download.rs 143-164: the answer to the file prompt: the user cancels, or
\* picks the files at the positions in `picked`
FilesPrompt(cancel, picked, dir_ok) ==
    /\ cmd = "download" /\ pc = "files_prompt"
    /\ filter_input' = << >>
    /\ shown' = {}
    /\ IF cancel
       THEN /\ ReturnErr
            /\ UNCHANGED <<remote_files, down, sent>>
       ELSE /\ remote_files' = SelectSeq(remote_files, LAMBDA file : file.id \in picked)
            /\ StartDownloads(remote_files', dir_ok)
    /\ UNCHANGED <<auth_vars, cmd, submit_vars, last_status, failed, args, base_url,
                   course_id>>

\* download.rs 194-196: the answer to reqwest::get, then File::create
\* (create_ok), then the body is awaited
FileGetResponse(i, r, create_ok) ==
    /\ cmd = "download" /\ pc = "downloading"
    /\ down[i].pc = "get"
    /\ last_status' = NoteStatus("file_get", r)
    /\ failed' = IF ~r.net \/ ~create_ok THEN failed \cup {"file_get"} ELSE failed
    /\ down' = [down EXCEPT ![i].pc = IF r.net /\ create_ok THEN "body" ELSE "err"]
    /\ DownloadJoin(down')
    /\ UNCHANGED <<auth_vars, filter_vars, cmd, submit_vars, sent, args, base_url, course_id,
                   remote_files>>

\* download.rs 196-203: the body arrives or the transfer breaks (body_ok), then
\* the bytes are copied to the file (copy_ok) and spinner_task.abort() is
\* reached; the `?` of every earlier step returns without it
FileBody(i, body_ok, copy_ok) ==
    /\ cmd = "download" /\ pc = "downloading"
    /\ down[i].pc = "body"
    /\ failed' = IF body_ok /\ copy_ok THEN failed ELSE failed \cup {"file_get"}
    /\ down' = [down EXCEPT
                    ![i].pc = IF body_ok /\ copy_ok THEN "ok" ELSE "err",
                    ![i].spinner = IF body_ok /\ copy_ok THEN "aborted" ELSE @]
    /\ DownloadJoin(down')
    /\ UNCHANGED <<auth_vars, filter_vars, cmd, submit_vars, sent, last_status, args, base_url,
                   course_id, remote_files>>

\* download.rs 181-186: one turn of the loop of the i-th file's tick task
DownloadSpinnerTick(i) ==
    /\ cmd = "download" /\ pc = "downloading"
    /\ down[i].spinner = "ticking"
    /\ down' = [down EXCEPT ![i].late_tick = @ \/ DownloadTerminal(down[i])]
    /\ UNCHANGED <<auth_vars, filter_vars, cmd, pc, outcome, sent, last_status, failed, printed,
                   submit_vars, args, base_url, course_id, remote_files>>

\* submit.rs 271-276, download.rs 139-143: the user types the key ch into
\* the filter of the open selector, which lists the options that match
TypeFilter(ch) ==
    /\ pc \in {"assignment_prompt", "files_prompt"}
    /\ Len(filter_input) < MaxQuery
    /\ filter_input' = Append(filter_input, ch)
    /\ shown' = Filtered(IF pc = "assignment_prompt"
                          THEN [i \in 1..Len(assignments) |->
                                   Label(assignments[i])]
                          ELSE [i \in 1..Len(remote_files) |->
                                   FileLabel(remote_files[i])],
                          filter_input')
    /\ UNCHANGED <<auth_vars, cmd, pc, outcome, sent, last_status, failed, printed,
                   submit_vars, download_vars>>

\* the file ids that can be given on the command line
FileIdArgs == {None} \cup {Some(S) : S \in SUBSET (1..MaxFiles)}

DownloadNext ==
    \/ DownloadStart
    \/ \E r \in Responses, fav \in BOOLEAN :
          CourseResponse(r, CourseResponseOf(course_id.v, 1, fav, 1, FALSE))
    \/ \E r \in Responses, body \in CourseLists : CourseListResponse(r, body)
    \/ \E r \in Responses, body \in ColorMaps : CourseColorsResponse(r, body)
    \/ \E choice \in 0..Len(courses) : FetchPrompt(choice)
    \/ \E r \in Responses, n \in 0..MaxFiles, ids \in FileIdArgs, dir_ok \in BOOLEAN :
          FileListResponse(r, n, ids, dir_ok)
    \/ \E cancel \in BOOLEAN, picked \in SUBSET (1..MaxFiles), dir_ok \in BOOLEAN :
          FilesPrompt(cancel, picked, dir_ok)
    \/ \E i \in 1..Len(down), r \in Responses, create_ok \in BOOLEAN :
          FileGetResponse(i, r, create_ok)
    \/ \E i \in 1..Len(down), body_ok \in BOOLEAN, copy_ok \in BOOLEAN :
          FileBody(i, body_ok, copy_ok)
    \/ \E i \in 1..Len(down) : DownloadSpinnerTick(i)

SubmitNext ==
    \/ SubmitStart
    \/ \E r \in Responses, body \in ColorMaps : ColorsResponse(r, body)
    \/ \E r \in Responses, body \in FavoriteSets : FavoritesResponse(r, body)
    \/ \E r \in Responses, has_data \in BOOLEAN, data \in Catalogs :
          GraphqlResponse(r, has_data, data)
    \/ \E choice \in 0..Len(courses) : CoursePrompt(choice)
    \/ \E choice \in 0..Len(assignments) : AssignmentPrompt(choice)
    \/ \E f \in 1..Len(up) : FileOpened(f)
    \/ \E f \in 1..Len(up), r \in Responses : Stage1Response(f, r)
    \/ \E f \in 1..Len(up), r \in Responses : Stage2Response(f, r)
    \/ \E f \in 1..Len(up), r \in Responses : Stage3Response(f, r)
    \/ \E r \in Responses : FinalizeResponse(r)
    \/ SpinnerTick
    \/ \E f \in 1..Len(up) : UploadSpinnerTick(f)

(***************************************************************************)
(* AuthCommand::action (auth.rs 43-104).                                   *)
(***************************************************************************)
\* auth.rs 44-71 and 80-83: the url and the token come from the flags or from
\* the prompts (typed_url, typed_token: the answers, None for a cancelled
\* prompt); the client is built (header_ok: the token makes a header value),
\* the tick task is spawned and the test query is awaited
AuthStart(typed_url, typed_token, header_ok) ==
    /\ cmd = "auth" /\ pc = "start"
    /\ LET url == IF args.url.some THEN args.url ELSE typed_url
           access_token == IF args.access_token.some
                           THEN args.access_token ELSE typed_token
           asked == (IF args.url.some THEN {} ELSE {"url"})
                    \cup (IF url.some /\ ~args.access_token.some
                          THEN {"access token"} ELSE {})
           cancelled == ~url.some \/ ~access_token.some     \* prompt()?
           panics == ~cancelled /\ ~header_ok   \* HeaderValue::from_str(..).unwrap()
       IN  /\ printed' = [printed EXCEPT
                              !.prompts = @ \cup asked,
                              !.errors = IF cancelled \/ panics THEN @ + 1 ELSE @]
           /\ outcome' = IF cancelled THEN "err"
                         ELSE IF panics THEN "panic" ELSE outcome
           /\ IF cancelled \/ panics
              THEN /\ pc' = "done"
                   /\ UNCHANGED <<credentials, spinner_task, sent>>
              ELSE /\ credentials' = [url |-> url.v,
                                      access_token |-> access_token.v]
                   /\ spinner_task' = "ticking"
                   /\ sent' = Send("self")
                   /\ pc' = "self"
    /\ UNCHANGED <<cmd, files, colors, favorites, assignments, courses, course,
                   assignment, up, done_order, params, next_id,
                   queried_assignments, last_status, failed, download_vars,
                   filter_vars, cfg, store>>

\* (the result of the test query not looked at)
SelfQueryAlwaysOk(r) == TRUE

\* auth.rs 80-85: .send().await?.json::<SelfResponse>().await?

SelfQueryOk(r) == r.net /\ r.body

\* auth.rs 80-103: the answer to the test query; on success the tick task is
\* aborted, the name is printed, cfg is assigned and confy::store writes it
\* (store_ok: the write succeeds)
SelfResponse(r, store_ok) ==
    /\ cmd = "auth" /\ pc = "self"
    /\ last_status' = NoteStatus("self", r)
    /\ failed' = NoteFailure("self", r)
    /\ IF ~SelfQueryOk(r)
       THEN /\ ReturnErr
            /\ UNCHANGED <<cfg, store, spinner_task>>
       ELSE /\ spinner_task' = "aborted"
            /\ cfg' = credentials
            /\ IF store_ok
               THEN /\ store' = cfg'
                    /\ outcome' = "ok"
                    /\ pc' = "done"
                    /\ printed' = [printed EXCEPT !.success = @ + 1]
               ELSE /\ ReturnErr
                    /\ UNCHANGED store
    /\ UNCHANGED <<cmd, files, colors, favorites, assignments, courses, course,
                   assignment, up, done_order, params, next_id,
                   queried_assignments, sent, download_vars, filter_vars,
                   credentials>>

\* auth.rs 73-78: one turn of the loop of the test query's tick task
AuthSpinnerTick ==
    /\ cmd = "auth" /\ pc # "done"
    /\ spinner_task = "ticking"
    /\ UNCHANGED vars

\* the answers to the prompts of auth
TypedUrls == {None, Some("typed url")}

TypedTokens == {None, Some("typed token")}

AuthNext ==
    \/ \E typed_url \in TypedUrls, typed_token \in TypedTokens,
          header_ok \in BOOLEAN :
          AuthStart(typed_url, typed_token, header_ok)
    \/ \E r \in Responses, store_ok \in BOOLEAN : SelfResponse(r, store_ok)
    \/ AuthSpinnerTick

Next ==
    \/ AuthNext
    \/ SubmitNext
    \/ DownloadNext
    \/ \E ch \in Alphabet : TypeFilter(ch)

Spec == Init /\ [][Next]_vars

\* The steps of submit that an answer brings about: a response or an error to
\* a request that is out, the completion of File::open, an answer to an open
\* prompt.  (The first step needs none.)
SubmitProgress ==
    \/ SubmitStart
    \/ \E r \in Responses, body \in ColorMaps : ColorsResponse(r, body)
    \/ \E r \in Responses, body \in FavoriteSets : FavoritesResponse(r, body)
    \/ \E r \in Responses, has_data \in BOOLEAN, data \in Catalogs :
          GraphqlResponse(r, has_data, data)
    \/ \E choice \in 0..Len(courses) : CoursePrompt(choice)
    \/ \E choice \in 0..Len(assignments) : AssignmentPrompt(choice)
    \/ \E f \in 1..Len(up) : FileOpened(f)
    \/ \E f \in 1..Len(up), r \in Responses : Stage1Response(f, r)
    \/ \E f \in 1..Len(up), r \in Responses : Stage2Response(f, r)
    \/ \E f \in 1..Len(up), r \in Responses : Stage3Response(f, r)
    \/ \E r \in Responses : FinalizeResponse(r)

\* Every request that is out eventually returns and every open prompt is
\* eventually answered: while the run waits for such an answer, one comes.
FairSpec == Spec /\ WF_vars(SubmitProgress)


(***************************************************************************)
(* Properties of the submit pipeline.                                      *)
(***************************************************************************)
Files == 1..Len(files)

SomeUploadFailed ==
    \/ \E f \in 1..Len(up) : up[f].pc = "err"
    \/ failed \cap UploadKinds # {}

C2_StagesCausallyOrdered ==
    \A f \in 1..Len(up) :
        /\ 2 \in up[f].stages =>
              1 \in up[f].stages /\ up[f].upload_bucket # 0
        /\ 3 \in up[f].stages =>
              2 \in up[f].stages /\ up[f].location # 0

C2_Witness ==
    /\ Len(up) >= 2
    /\ up[1].stages = {1}
    /\ up[2].stages = {1, 2, 3} /\ up[2].location # 0

\* C3: at most one finalization request is issued in a run; it carries the
\* ids of the uploaded files in the order of the input paths, whatever the
\* order in which the uploads completed, with submission type online_upload.
C3_OneFinalizeInFileOrder ==
    cmd = "submit" =>
        /\ sent["finalize"] <= 1
        /\ sent["finalize"] = 1 =>
              /\ params.file_ids = [f \in Files |-> up[f].id]
              /\ params.submission_type = "online_upload"
        /\ sent["finalize"] = 0 => params = NoParams

C3_Witness ==
    /\ cmd = "submit" /\ sent["finalize"] = 1 /\ pc = "done"
    /\ Len(done_order) >= 2 /\ done_order[1] # 1

C5_PreconditionsBeforeNetwork ==
    (cmd = "submit" /\ (Len(files) = 0 \/ \E i \in Files : ~files[i])) =>
        /\ \A k \in ReqKinds : sent[k] = 0
        /\ pc = "start" \/ (pc = "done" /\ outcome = "err")
        /\ printed.success = 0

C5_Witness ==
    /\ cmd = "submit" /\ pc = "done"
    /\ Len(files) >= 2 /\ files[1] /\ ~files[2]

\* C6: a non-success status on the finalization request ends the run with a
\* fatal error: no success line, no retry, no second submission request.
C6_FinalizeStatusIsFatal ==
    (cmd = "submit" /\ last_status = [kind |-> "finalize", success |-> FALSE]) =>
        /\ pc = "done" /\ outcome = "err"
        /\ printed.success = 0 /\ printed.errors = 1
        /\ sent["finalize"] = 1

C6_Witness ==
    cmd = "submit" /\ last_status = [kind |-> "finalize", success |-> FALSE]

\* C7: a non-success status on an aggregation query or on an upload stage is
\* fatal, whatever the body of the response: once the task has read such a
\* response the run has failed (so nothing further is started).
C7_NonSuccessStatusIsFatal ==
    (/\ cmd = "submit"
     /\ last_status.kind \in AggregationKinds \cup UploadKinds
     /\ ~last_status.success) =>
        pc = "done" /\ outcome \in {"err", "panic"}

\* C8: no error is swallowed: after a failed request or per-file transfer, and
\* after a file listing answered with a non-success status, the success line
\* is not printed and the run does not return Ok.
C8_NoErrorSwallowed ==
    (\/ failed # {}
     \/ last_status = [kind |-> "file_list", success |-> FALSE]) =>
        printed.success = 0 /\ outcome # "ok"

\* C9: a terminated submit run has exactly one outcome: success is reported,
\* and then every file was uploaded and the finalization succeeded, or exactly
\* one fatal error is reported; nothing is reported before the run ends.
C9_ExactlyOneOutcome ==
    cmd = "submit" =>
        IF pc = "done"
        THEN \/ /\ outcome = "ok"
                /\ printed.success = 1 /\ printed.errors = 0
                /\ Len(up) = Len(files)
                /\ \A f \in Files : up[f].pc = "ok" /\ up[f].id # 0
                /\ sent["finalize"] = 1
                /\ last_status = [kind |-> "finalize", success |-> TRUE]
             \/ /\ outcome \in {"err", "panic"}
                /\ printed.success = 0 /\ printed.errors = 1
        ELSE outcome = "running" /\ printed.success = 0 /\ printed.errors = 0

C9_Witness ==
    /\ cmd = "submit" /\ pc = "done"
    /\ Cardinality({f \in 1..Len(up) : up[f].pc = "err"}) >= 2

\* a due date d1 may stand before d2: ascending, no due date last
DueInOrder(d1, d2) ==
    IF d1.some /\ d2.some THEN d1.v <= d2.v ELSE d1.some \/ ~d2.some

\* C10: the list given to the assignment selector has every unsubmitted
\* assignment before every submitted one and, within equal submitted status,
\* ascending due dates with the assignments without due date last.
C10_AssignmentOrder ==
    (cmd = "submit" /\ pc = "assignment_prompt") =>
        \A i, j \in 1..Len(assignments) :
            i < j =>
                /\ ~(assignments[i].submitted /\ ~assignments[j].submitted)
                /\ assignments[i].submitted = assignments[j].submitted =>
                      DueInOrder(assignments[i].due_at, assignments[j].due_at)

\* C11: the list the course selector presents has every favorite before every
\* non-favorite, and courses of equal favorite status ascending by name
\* (submit) or by creation time (Course::fetch).
C11_CourseSelectorOrder ==
    pc = "course_prompt" =>
        \A i, j \in 1..Len(courses) :
            i < j =>
                IF cmd = "submit"
                THEN /\ courses[j].favorite => courses[i].favorite
                     /\ courses[i].favorite = courses[j].favorite
                            => courses[i].name <= courses[j].name
                ELSE /\ courses[j].is_favorite => courses[i].is_favorite
                     /\ courses[i].is_favorite = courses[j].is_favorite
                            => courses[i].created_at <= courses[j].created_at

\* a favorite is listed before a non-favorite whose name sorts earlier
C11_Witness ==
    /\ cmd = "submit" /\ pc = "course_prompt"
    /\ Len(courses) = 2
    /\ courses[1].favorite /\ ~courses[2].favorite
    /\ courses[1].name > courses[2].name

\* the record of the graphql response that assignment a was built from
Queried(a) ==
    CHOOSE n \in UNION { {queried_assignments[c].assignments[j] :
                             j \in 1..Len(queried_assignments[c].assignments)} :
                         c \in 1..Len(queried_assignments) } : n.id = a.id

\* C12: an assignment is marked submitted exactly when at least one of its
\* submission records, whichever it is, has a non-empty status; an assignment
\* without records is unsubmitted.
C12_SubmittedIffAnyRecord ==
    (cmd = "submit" /\ pc = "course_prompt") =>
        \A i \in 1..Len(assignments) :
            assignments[i].submitted
                <=> \E k \in 1..Len(Queried(assignments[i]).submissions) :
                        Queried(assignments[i]).submissions[k] # ""

\* the colors response has no entry for the asset key of a course that the
\* graphql response lists with an assignment (colors is cleared once a merge
\* has read it to the end)
ColorMissing ==
    \E c \in 1..Len(queried_assignments) :
        /\ Len(queried_assignments[c].assignments) > 0
        /\ queried_assignments[c].asset_string \notin DOMAIN colors

\* C13: when the three queries were answered and the colors response lacks
\* the entry of a course, the merge still succeeds: the run does not abort.
C13_MissingColorFallsBack ==
    ( /\ cmd = "submit"
      /\ last_status.kind = "graphql" /\ "graphql" \notin failed
      /\ ColorMissing )
        => outcome # "panic"

\* assignment a is one the service lists under the selected course, with
\* online_upload among its submission types
UploadableInCourse(a) ==
    /\ OnlineUpload \in a.submission_types
    /\ a.course = course
    /\ \E c \in 1..Len(queried_assignments) :
          /\ queried_assignments[c].id = course.id
          /\ \E j \in 1..Len(queried_assignments[c].assignments) :
                LET n == queried_assignments[c].assignments[j]
                IN  n.id = a.id /\ OnlineUpload \in n.submission_types

\* C14: every assignment the assignment selector offers, and the assignment
\* the upload and the finalization use, accepts online_upload and belongs to
\* the selected course.
C14_OfferedAssignmentsUploadable ==
    cmd = "submit" =>
        /\ pc = "assignment_prompt" =>
               \A i \in 1..Len(assignments) : UploadableInCourse(assignments[i])
        /\ assignment # NoAssignment => UploadableInCourse(assignment)

\* the course has three assignments, one of them without online_upload, and
\* the selector offers the other two
C14_Witness ==
    /\ cmd = "submit" /\ pc = "assignment_prompt"
    /\ Len(assignments) = 2
    /\ \E c \in 1..Len(queried_assignments) :
          /\ queried_assignments[c].id = course.id
          /\ Len(queried_assignments[c].assignments) = 3

\* the id the stated precedence gives: flag, then CANVAS_COURSE_ID, then the
\* id parsed from the URL, else none (the prompt)
StatedCourseId ==
    IF args.course.some THEN args.course
    ELSE IF args.env_course.some THEN args.env_course
    ELSE IF CanvasFileUrl(args).some THEN Some(CanvasFileUrl(args).v.course)
    ELSE None

\* C15: the course id that download hands to Course::fetch follows the
\* precedence explicit flag > CANVAS_COURSE_ID > id parsed from the URL >
\* prompt; when the flag is given, its value is the id used.
C15_FlagWinsCourseId ==
    (cmd = "download" /\ sent["course"] + sent["course_list"] > 0)
        => course_id = StatedCourseId

\* C16: when Course::fetch is given a course id it looks that id up directly:
\* the course list is never requested and no course selector is shown; when
\* the lookup fails, fetch returns the error and download sends nothing more.
C16_DirectLookup ==
    (cmd = "download" /\ course_id.some) =>
        /\ sent["course"] = 1
        /\ sent["course_list"] = 0
        /\ pc # "course_prompt" /\ "course" \notin printed.prompts
        /\ "course" \in failed =>
              /\ pc = "done" /\ outcome = "err"
              /\ sent["course_colors"] = 0
              /\ sent["file_list"] = 0 /\ sent["file_get"] = 0

\* the lookup by id was answered "not found" with a body that is no course
C16_Witness ==
    /\ cmd = "download" /\ course_id.some
    /\ "course" \in failed
    /\ last_status.kind = "course" /\ ~last_status.success

\* C17: every request that goes out carries the bearer credential: the
\* aggregation queries, the three upload stages, the finalization, the course
\* lookup, the file listing and every per-file content download.
C17_EveryRequestCarriesBearer ==
    \A k \in ReqKinds : sent[k] > 0 => CarriesBearer(k)

\* C18: the three aggregation queries are in flight together: none waits for
\* the response to another before it is sent, so once the first of them is
\* on the wire the other two are as well.
C18_AggregationQueriesConcurrent ==
    (cmd = "submit" /\ \E k \in AggregationKinds : sent[k] > 0)
        => \A k \in AggregationKinds : sent[k] > 0

\* C19: a tick task is terminated as soon as the operation it decorates has
\* completed, whether with a result or with an error: while the run goes on,
\* the query spinner ticks only during the three queries, and no per-file
\* spinner of an upload or a download ticks after its pipeline has returned.
C19_SpinnerStopsWithOperation ==
    /\ (cmd = "submit" /\ spinner_task = "ticking" /\ pc # "done")
          => pc \in {"colors", "favorites", "graphql"}
    /\ \A f \in 1..Len(up) : ~up[f].late_tick
    /\ \A i \in 1..Len(down) : ~down[i].late_tick

\* C20: the file pipelines are independent: when one of them fails, at any
\* stage and in any way, the others are not cancelled; by the time the run
\* has ended each of them has run to its own completion.
C20_SiblingsRunToCompletion ==
    ( /\ cmd = "submit" /\ pc = "done"
      /\ \E f \in 1..Len(up) : up[f].pc \in {"err", "panicked"} )
        => \A g \in 1..Len(up) : up[g].pc \in {"ok", "err", "panicked"}

\* C21: a bucket is consumed once and only for the file it was issued for:
\* each file's stage-2 request goes to the upload URL, with the form fields,
\* of that file's own stage-1 response; no two stage-2 requests use the same
\* bucket, and each file sends at most one, however the pipelines interleave.
C21_BucketConsumedOnce ==
    cmd = "submit" =>
        /\ \A f \in 1..Len(up) :
              2 \in up[f].stages =>
                  /\ up[f].upload_bucket = f
                  /\ up[f].posted_to = f /\ up[f].posted_form = f
        /\ \A f, g \in 1..Len(up) :
              (f # g /\ 2 \in up[f].stages /\ 2 \in up[g].stages)
                  => up[f].posted_to # up[g].posted_to
        /\ sent["stage2"] = Cardinality({f \in 1..Len(up) : 2 \in up[f].stages})

\* both payloads are out, each to its own bucket, the pipelines at
\* different stages
C21_Witness ==
    /\ cmd = "submit" /\ Len(up) = 2
    /\ up[1].pc = "stage2" /\ up[2].pc = "stage3"
    /\ up[1].posted_to = 1 /\ up[2].posted_to = 2

\* C22: the stages of the submit pipeline run strictly in sequence: the
\* course selector is shown only by the step that completes the third of the
\* aggregation queries, the assignment selector only once a course is chosen,
\* a stage-1 request is sent only after an assignment was chosen, and the
\* finalization request only when every pipeline has been joined.
C22_StagesInSequence ==
    [][ cmd = "submit" =>
          /\ ("course" \in printed'.prompts /\ "course" \notin printed.prompts)
                => /\ pc = "graphql"
                   /\ \A k \in AggregationKinds : sent[k] = 1 /\ k \notin failed'
                   /\ last_status'.kind = "graphql"
          /\ ("assignment" \in printed'.prompts
                 /\ "assignment" \notin printed.prompts)
                => /\ "course" \in printed.prompts
                   /\ course = NoCourse /\ course' # NoCourse
          /\ sent'["stage1"] > sent["stage1"]
                => /\ "assignment" \in printed.prompts
                   /\ assignment # NoAssignment
          /\ sent'["finalize"] > sent["finalize"]
                => /\ Len(up') = Len(files)
                   /\ \A f \in 1..Len(up') : up'[f].pc = "ok"
                   /\ sent'["stage3"] = Len(files)
      ]_vars

\* the finalization request is out after two pipelines were joined
C22_Witness ==
    /\ cmd = "submit" /\ pc = "finalize"
    /\ Len(up) = 2 /\ sent["finalize"] = 1
    /\ printed.prompts = {"course", "assignment"}

\* the (course, assignment) pairs of a graphql response, in document order
RECURSIVE QueriedNodes(_)
QueriedNodes(data) ==
    IF data = << >> THEN << >>
    ELSE [j \in 1..Len(Head(data).assignments) |->
             [c |-> Head(data), a |-> Head(data).assignments[j]]]
         \o QueriedNodes(Tail(data))

\* C23: the merged list is a function of the contents of the three responses
\* alone: one entry per assignment of the graphql response, in its order, the
\* course's favorite flag being the membership of its id in the favorites
\* response and its color the entry of its asset key in the colors response.
C23_MergedViewFromContents ==
    [][ (cmd = "submit" /\ pc = "graphql" /\ pc' = "course_prompt") =>
          LET n == QueriedNodes(queried_assignments')
          IN  /\ Len(assignments') = Len(n)
              /\ \A i \in 1..Len(n) :
                    LET m == assignments'[i]
                    IN  /\ m.id = n[i].a.id /\ m.name = n[i].a.name
                        /\ m.due_at = n[i].a.due_at
                        /\ m.submission_types = n[i].a.submission_types
                        /\ m.course.id = n[i].c.id
                        /\ m.course.name = n[i].c.name
                        /\ m.course.favorite = (n[i].c.id \in favorites)
                        /\ m.course.css_color = colors[n[i].c.asset_string]
      ]_vars

\* two courses were merged, the first a favorite and the second not
C23_Witness ==
    /\ cmd = "submit" /\ pc = "course_prompt"
    /\ Len(assignments) = 4
    /\ assignments[1].course.favorite /\ ~assignments[4].course.favorite
    /\ assignments[1].course.id # assignments[4].course.id

\* C24: the filter of the assignment selector and of the file selector is
\* monotonic: when the text typed so far is extended by a character, every
\* option still listed was listed before.
C24_FilterMonotonic ==
    [][ ( /\ pc \in {"assignment_prompt", "files_prompt"} /\ pc' = pc
          /\ Len(filter_input') > Len(filter_input) )
            => shown' \subseteq shown ]_vars

\* two keys typed, and the assignment selector lists some options, not all
C24_Witness ==
    /\ pc = "assignment_prompt"
    /\ Len(filter_input) = 2
    /\ shown # {} /\ shown # 1..Len(assignments)

\* C25: auth changes the configuration, in memory and in the store, only
\* after the test query has succeeded: when the query got no response or a
\* body that does not parse, cfg.url and cfg.access_token are what they were
\* and nothing was written to the store.
C25_ConfigOnlyAfterTestQuery ==
    cmd = "auth" =>
        /\ (cfg # OldConfig \/ store # OldConfig)
              => /\ sent["self"] = 1 /\ "self" \notin failed
                 /\ last_status.kind = "self"
                 /\ cfg = credentials
        /\ "self" \in failed
              => /\ cfg = OldConfig /\ store = OldConfig
                 /\ pc = "done" /\ outcome = "err"
        /\ store # OldConfig => store = cfg /\ outcome = "ok"

\* the test query was answered with an error status and a body that is no
\* SelfResponse: the run has failed and the configuration is untouched
C25_Witness ==
    /\ cmd = "auth" /\ pc = "done"
    /\ "self" \in failed
    /\ last_status = [kind |-> "self", success |-> FALSE]
    /\ credentials # NoCredentials /\ cfg = OldConfig /\ store = OldConfig

\* C26: every course that the course selector of submit offers has an
\* assignment that accepts online_upload, so that whichever course is chosen
\* the assignment selector has a candidate; and no remote course is listed
\* twice.
C26_OfferedCoursesHaveCandidates ==
    (cmd = "submit" /\ pc = "course_prompt") =>
        /\ \A i \in 1..Len(courses) :
              /\ \E k \in 1..Len(assignments) :
                    /\ assignments[k].course = courses[i]
                    /\ OnlineUpload \in assignments[k].submission_types
              /\ Len(Candidates(assignments, courses[i])) > 0
        /\ \A i, j \in 1..Len(courses) :
              i # j => courses[i].id # courses[j].id

\* C27: when every request eventually returns and every prompt is eventually
\* answered, a run of submit eventually ends, in success or in failure, and
\* once it has ended no file pipeline is in flight: each has returned or
\* panicked or has been dropped.
C27_SubmitTerminates ==
    /\ <>(cmd # "submit" \/ pc = "done")
    /\ []((cmd = "submit" /\ pc = "done") =>
            \A f \in 1..Len(up) :
                up[f].pc \in {"ok", "err", "panicked", "dropped"})

\* a run with two files has ended by a panic in one pipeline while the other
\* was waiting for a response
C27_Witness ==
    /\ cmd = "submit" /\ pc = "done" /\ outcome = "panic"
    /\ Len(up) = 2
    /\ up[1].pc = "panicked" /\ up[2].pc = "dropped" /\ up[2].stages # {}

=============================================================================
